---- MODULE Spec2Model ----
(***************************************************************************)
(* Model of scripts/make_plots.py: load_data, the aggregations of the      *)
(* three chart functions, the layout loop of plot_word_cards and main.     *)
(*                                                                         *)
(* Text is a tuple of one-character strings, so that trimming, pattern     *)
(* matching and lexicographic comparison are computed and not assumed.     *)
(* A missing value (pandas NaN) is the tuple NA, which is no text.         *)
(* pandas semantics are those of pandas 1.x/2.x: astype(str) turns NaN     *)
(* into the text "nan", nunique() skips NaN, read_csv maps the default     *)
(* na_values to NaN.  sense_id and meaning cells are kept as read (the     *)
(* numeric type inference of read_csv is not modelled: only equality of    *)
(* sense_id values is ever used).                                          *)
(***************************************************************************)
EXTENDS Integers, Sequences, FiniteSets, TLC

VARIABLES
    pc,         \* the position of the running code
    caller,     \* "main", or "test" when a function is called on its own
    dir,        \* the input directory: file name -> CSV file
    max_words,  \* the argument of plot_word_cards
    data,       \* the table returned by load_data
    err,        \* the exception that ended the run
    counts,     \* plot_variant_counts: the table handed to the chart
    words,      \* plot_word_cards: the selected groups
    rows,       \* plot_word_cards: the list rows
    i, j,       \* plot_word_cards: the card and the meaning being drawn
    y,          \* plot_word_cards: the vertical cursor, in thousandths
    drawn,      \* plot_word_cards: the ax.text calls made so far
    written,    \* the files written to the output directory
    outputs,    \* the paths returned by the chart functions
    stdout,     \* the lines printed
    exitCode,   \* the exit status of the process
    steps       \* the steps of the pipeline that were started

vars == <<pc, caller, dir, max_words, data, err, counts, words, rows, i, j, y,
          drawn, written, outputs, stdout, exitCode, steps>>

---------------------------------------------------------------------------
(* Bounds of the model *)

\* rows in the input directory of a run of main
MaxRows == 2

\* rows of the table a chart function is called with
MaxTableRows == 3

\* largest max_words plot_word_cards is called with
MaxWordsArg == 2

\* groups and (ipa, meaning) pairs per group of the layout tables
MaxCards == 4

MaxPairs == 14

---------------------------------------------------------------------------
(* Text *)

\* the characters of the model in ascending code point order
Alphabet == <<" ", ".", "1", "2", "_", "a", "b", "c", "e", "h", "m", "n",
              "o", "r", "s", "t", "v", "x", "y">>

Rank(c) == CHOOSE k \in 1..Len(Alphabet) : Alphabet[k] = c

Min(a, b) == IF a <= b THEN a ELSE b

\* Python's str.__lt__: lexicographic by code point, a proper prefix first
RECURSIVE StrLess(_, _)
StrLess(s, t) ==
    IF t = <<>> THEN FALSE
    ELSE IF s = <<>> THEN TRUE
    ELSE IF s[1] = t[1] THEN StrLess(Tail(s), Tail(t))
    ELSE Rank(s[1]) < Rank(t[1])

Whitespace == {" "}

RECURSIVE LStrip(_)
LStrip(s) == IF s # <<>> /\ s[1] \in Whitespace THEN LStrip(Tail(s)) ELSE s

RECURSIVE RStrip(_)
RStrip(s) ==
    IF s # <<>> /\ s[Len(s)] \in Whitespace
    THEN RStrip(SubSeq(s, 1, Len(s) - 1)) ELSE s

\* a plausible slip: removes one whitespace character at each end only
StripOnce(s) ==
    LET l == IF s # <<>> /\ s[1] \in Whitespace THEN Tail(s) ELSE s
    IN  IF l # <<>> /\ l[Len(l)] \in Whitespace
        THEN SubSeq(l, 1, Len(l) - 1) ELSE l

\* str.strip()
Strip(s) == RStrip(LStrip(s))

\* the missing value (NaN)
NA == <<"<NA>">>

NanText == <<"n", "a", "n">>

\* Series.astype(str): str() of each value, str(nan) = "nan"
AsStr(v) == IF v = NA THEN NanText ELSE v

\* lines 27-29: .astype(str).str.strip() of one value
NormalizeValue(v) == Strip(AsStr(v))

---------------------------------------------------------------------------
(* Files and directories *)

Prefix == <<"h", "e", "t", "e", "r", "o", "n", "y", "m", "s", "_">>

Suffix == <<".", "c", "s", "v">>

FileA == Prefix \o <<"a">> \o Suffix

FileB == Prefix \o <<"b">> \o Suffix

\* names that do not match the pattern
FileTxt == Prefix \o <<"a", ".", "t", "x", "t">>

FileOther == <<"a">> \o Suffix

\* a plausible slip: the pattern "*.csv"
MatchesAnyCsv(name) ==
    /\ Len(name) >= Len(Suffix)
    /\ SubSeq(name, Len(name) - Len(Suffix) + 1, Len(name)) = Suffix

\* Path.glob("heteronyms_*.csv") applied to one file name
Matches(name) ==
    /\ Len(name) >= Len(Prefix) + Len(Suffix)
    /\ SubSeq(name, 1, Len(Prefix)) = Prefix
    /\ SubSeq(name, Len(name) - Len(Suffix) + 1, Len(name)) = Suffix

Glob(d) == {n \in DOMAIN d : Matches(n)}

\* rank-based sort of a finite set under a strict total order
SortSet(S, Less(_, _)) ==
    [k \in 1..Cardinality(S) |->
        CHOOSE x \in S : Cardinality({z \in S : Less(z, x)}) = k - 1]

\* a plausible slip: sorted(..., reverse=True) / unsorted directory order
SortedPathsDesc(S) == SortSet(S, LAMBDA a, b : StrLess(b, a))

\* sorted(data_dir.glob(...)), line 13
SortedPaths(S) == SortSet(S, StrLess)

Required == {"language", "word", "sense_id", "meaning", "ipa"}

\* the default na_values of read_csv that the alphabet can spell
NaValues == {<<>>, NanText}

ReadCell(text) == IF text \in NaValues THEN NA ELSE text

\* pd.read_csv(path), line 14
ReadCsv(file) ==
    [cols |-> file.cols,
     rows |-> [k \in 1..Len(file.rows) |->
                 [c \in file.cols |-> ReadCell(file.rows[k][c])]]]

\* df["source_file"] = path.name, line 15
Tag(df, name) ==
    [cols |-> df.cols \cup {"source_file"},
     rows |-> [k \in 1..Len(df.rows) |->
                 [c \in df.cols \cup {"source_file"} |->
                     IF c = "source_file" THEN name ELSE df.rows[k][c]]]]

\* lines 12-16: the list dfs
ReadAll(d) ==
    LET paths == SortedPaths(Glob(d))
    IN  [k \in 1..Len(paths) |-> Tag(ReadCsv(d[paths[k]]), paths[k])]

RECURSIVE Flatten(_)
Flatten(ss) == IF ss = <<>> THEN <<>> ELSE Head(ss) \o Flatten(Tail(ss))

\* pd.concat(dfs, ignore_index=True), line 20: union of the columns,
\* NaN where a frame lacks a column
Concat(dfs) ==
    LET allcols == UNION {dfs[k].cols : k \in 1..Len(dfs)}
        Widen(df) == [k \in 1..Len(df.rows) |->
                        [c \in allcols |->
                            IF c \in df.cols THEN df.rows[k][c] ELSE NA]]
    IN  [cols |-> allcols,
         rows |-> Flatten([k \in 1..Len(dfs) |-> Widen(dfs[k])])]

\* a plausible slip: "ipa" forgotten in the required set
MissingColumnsNoIpa(cols) == (Required \ {"ipa"}) \ cols

\* lines 21-22
MissingColumns(cols) == Required \ cols

NormalizedColumns == {"word", "language", "ipa"}

\* lines 27-29
Normalize(t) ==
    [cols |-> t.cols,
     rows |-> [k \in 1..Len(t.rows) |->
                 [c \in t.cols |->
                     IF c \in NormalizedColumns
                     THEN NormalizeValue(t.rows[k][c]) ELSE t.rows[k][c]]]]

NoTable == [cols |-> {}, rows |-> <<>>]

NoError == [kind |-> "none", missing |-> {}]

\* load_data, lines 11-30, as a function of the directory
LoadData(d) ==
    LET dfs == ReadAll(d)
    IN  IF dfs = <<>>
        THEN [err |-> [kind |-> "FileNotFoundError", missing |-> {}],
              table |-> NoTable]
        ELSE LET t == Concat(dfs)
                 missing == MissingColumns(t.cols)
             IN  IF missing # {}
                 THEN [err |-> [kind |-> "ValueError", missing |-> missing],
                       table |-> NoTable]
                 ELSE [err |-> NoError, table |-> Normalize(t)]

---------------------------------------------------------------------------
(* Aggregations *)

Range(s) == {s[k] : k \in DOMAIN s}

\* the column c of a sequence of rows
Column(rs, c) == [k \in 1..Len(rs) |-> rs[k][c]]

\* data.groupby(["language", "word"]): the keys (rows with a NaN key are
\* left out, groupby's dropna=True)
GroupKeys(t) ==
    {<<r["language"], r["word"]>> : r \in
        {q \in Range(t.rows) : q["language"] # NA /\ q["word"] # NA}}

\* the rows of one group, in table order (also the selection of line 109)
GroupRows(t, key) ==
    SelectSeq(t.rows, LAMBDA r : r["language"] = key[1] /\ r["word"] = key[2])

\* a plausible slip: "count" instead of "nunique"
CountNonMissing(vals) == Len(SelectSeq(vals, LAMBDA v : v # NA))

\* Series.nunique(): number of distinct values, NaN not counted
NUnique(vals) == Cardinality(Range(vals) \ {NA})

\* lines 34-37: one record per group
VariantCountsAgg(t) ==
    {[language |-> key[1], word |-> key[2],
      n_variants |-> NUnique(Column(GroupRows(t, key), "ipa")),
      n_senses |-> NUnique(Column(GroupRows(t, key), "sense_id"))] :
        key \in GroupKeys(t)}

\* a plausible slip: n_senses ascending
VariantCountsLessSensesAsc(a, b) ==
    IF a.language # b.language THEN StrLess(a.language, b.language)
    ELSE IF a.n_variants # b.n_variants THEN a.n_variants > b.n_variants
    ELSE IF a.n_senses # b.n_senses THEN a.n_senses < b.n_senses
    ELSE StrLess(a.word, b.word)

\* line 40: sort_values(["language", "n_variants", "n_senses", "word"],
\*                      ascending=[True, False, False, True])
VariantCountsLess(a, b) ==
    IF a.language # b.language THEN StrLess(a.language, b.language)
    ELSE IF a.n_variants # b.n_variants THEN a.n_variants > b.n_variants
    ELSE IF a.n_senses # b.n_senses THEN a.n_senses > b.n_senses
    ELSE StrLess(a.word, b.word)

\* lines 34-40: the table handed to sns.catplot
VariantCounts(t) == SortSet(VariantCountsAgg(t), VariantCountsLess)

\* lines 100-102
WordCardsAgg(t) ==
    {[language |-> key[1], word |-> key[2],
      n_variants |-> NUnique(Column(GroupRows(t, key), "ipa"))] :
        key \in GroupKeys(t)}

\* line 103: sort_values(["n_variants", "language", "word"],
\*                       ascending=[False, True, True])
WordCardsLess(a, b) ==
    IF a.n_variants # b.n_variants THEN a.n_variants > b.n_variants
    ELSE IF a.language # b.language THEN StrLess(a.language, b.language)
    ELSE StrLess(a.word, b.word)

\* a plausible slip: one row too many
DfHeadOffByOne(s, n) == SubSeq(s, 1, Min(n + 1, Len(s)))

\* DataFrame.head(n), line 104: the first n rows; all but the last -n rows
\* for a negative n
DfHead(s, n) ==
    IF n >= 0 THEN SubSeq(s, 1, Min(n, Len(s)))
    ELSE SubSeq(s, 1, Len(s) + n)

\* lines 100-105
SelectWords(t, n) == DfHead(SortSet(WordCardsAgg(t), WordCardsLess), n)

\* Series.dropna()
DropNa(vals) == SelectSeq(vals, LAMBDA v : v # NA)

\* line 110: sorted(subset["ipa"].dropna().unique().tolist())
CardIpas(subset) == SortSet(Range(DropNa(Column(subset, "ipa"))), StrLess)

PairLess(a, b) ==
    IF a[1] # b[1] THEN StrLess(a[1], b[1]) ELSE StrLess(a[2], b[2])

\* line 111: subset[["ipa", "meaning"]].dropna().drop_duplicates()
\*           .sort_values(["ipa", "meaning"])
CardMeanings(subset) ==
    SortSet({<<r["ipa"], r["meaning"]>> : r \in
                {q \in Range(subset) : q["ipa"] # NA /\ q["meaning"] # NA}},
            PairLess)

\* lines 107-112: the list rows
CollectCards(t, ws) ==
    [k \in 1..Len(ws) |->
        LET subset == GroupRows(t, <<ws[k].language, ws[k].word>>)
        IN  [language |-> ws[k].language, word |-> ws[k].word,
             ipas |-> CardIpas(subset), meanings |-> CardMeanings(subset)]]

---------------------------------------------------------------------------
(* The steps of the program *)

OutDir == "figures"

OutPath(name) == [dir |-> OutDir, name |-> name]

NoPath == [dir |-> "", name |-> ""]

VariantCountsPng == OutPath("variant_counts_by_word.png")

IpaLengthPng == OutPath("ipa_length_distribution.png")

WordCardsPng == OutPath("word_cards.png")

DefaultMaxWords == 12

\* the vertical positions of lines 120-135, in thousandths
YStart == 980

TitleDrop == 60

HeaderDrop == 35

VariantsDrop == 30

PairDrop == 25

GapDrop == 20

YMin == 50

NotExited == -1

\* the outcomes of the float comparison y < 0.05 for the cursor whose
\* decimal value is v thousandths: the rounding of the repeated float
\* subtractions decides it when the decimal value is exactly 0.05
Below(v) == IF v = YMin THEN BOOLEAN ELSE {v < YMin}

Started(name) == Append(steps, [name |-> name, status |-> "running"])

Ended(status) ==
    [steps EXCEPT ![Len(steps)] = [name |-> steps[Len(steps)].name,
                                   status |-> status]]

\* an exception propagates: nothing catches it (no try in the file)
Raise(e, log) ==
    /\ pc' = "failed"
    /\ err' = e
    /\ steps' = log
    /\ exitCode' = IF caller = "main" THEN 1 ELSE exitCode

Error(kind) == [kind |-> kind, missing |-> {}]

\* line 153
MkDir ==
    /\ pc = "start"
    /\ \E ok \in BOOLEAN :
        IF ok
        THEN /\ pc' = "load_data"
             /\ steps' = Append(steps, [name |-> "mkdir", status |-> "ok"])
             /\ UNCHANGED <<err, exitCode>>
        ELSE Raise(Error("OSError"),
                   Append(steps, [name |-> "mkdir", status |-> "failed"]))
    /\ UNCHANGED <<caller, dir, max_words, data, counts, words, rows, i, j, y,
                   drawn, written, outputs, stdout>>

\* line 155 and lines 11-30
Load ==
    /\ pc = "load_data"
    /\ \E readFails \in BOOLEAN :
        LET r == LoadData(dir)
        IN  IF readFails /\ Glob(dir) # {}
            THEN /\ Raise(Error("OSError"),
                          Append(steps, [name |-> "load_data",
                                         status |-> "failed"]))
                 /\ data' = data
            ELSE IF r.err.kind # "none"
            THEN /\ Raise(r.err, Append(steps, [name |-> "load_data",
                                                status |-> "failed"]))
                 /\ data' = data
            ELSE /\ data' = r.table
                 /\ pc' = "plot_variant_counts"
                 /\ steps' = Append(steps, [name |-> "load_data",
                                            status |-> "ok"])
                 /\ UNCHANGED <<err, exitCode>>
    /\ UNCHANGED <<caller, dir, max_words, counts, words, rows, i, j, y,
                   drawn, written, outputs, stdout>>

\* lines 33-62 (and line 160)
PlotVariantCounts ==
    /\ pc = "plot_variant_counts"
    /\ counts' = VariantCounts(data)
    /\ \E ok \in BOOLEAN :
        IF ok
        THEN /\ written' = written \cup {VariantCountsPng}
             /\ outputs' = Append(outputs, VariantCountsPng)
             /\ pc' = IF caller = "main" THEN "plot_ipa_length" ELSE "returned"
             /\ steps' = Append(steps, [name |-> "plot_variant_counts",
                                        status |-> "ok"])
             /\ UNCHANGED <<err, exitCode>>
        ELSE /\ Raise(Error("RenderError"),
                      Append(steps, [name |-> "plot_variant_counts",
                                     status |-> "failed"]))
             /\ UNCHANGED <<written, outputs>>
    /\ UNCHANGED <<caller, dir, max_words, data, words, rows, i, j, y, drawn,
                   stdout>>

\* a plausible slip: the failure of a chart is swallowed
PlotIpaLengthSwallow ==
    /\ pc = "plot_ipa_length"
    /\ \E ok \in BOOLEAN :
        /\ written' = IF ok THEN written \cup {IpaLengthPng} ELSE written
        /\ outputs' = IF ok THEN Append(outputs, IpaLengthPng) ELSE outputs
        /\ steps' = Append(steps, [name |-> "plot_ipa_length",
                                   status |-> IF ok THEN "ok" ELSE "failed"])
    /\ pc' = "plot_word_cards"
    /\ UNCHANGED <<caller, dir, max_words, data, err, counts, words, rows, i,
                   j, y, drawn, stdout, exitCode>>

\* lines 65-95 (and line 161)
PlotIpaLength ==
    /\ pc = "plot_ipa_length"
    /\ \E ok \in BOOLEAN :
        IF ok
        THEN /\ written' = written \cup {IpaLengthPng}
             /\ outputs' = Append(outputs, IpaLengthPng)
             /\ pc' = "plot_word_cards"
             /\ steps' = Append(steps, [name |-> "plot_ipa_length",
                                        status |-> "ok"])
             /\ UNCHANGED <<err, exitCode>>
        ELSE /\ Raise(Error("RenderError"),
                      Append(steps, [name |-> "plot_ipa_length",
                                     status |-> "failed"]))
             /\ UNCHANGED <<written, outputs>>
    /\ UNCHANGED <<caller, dir, max_words, data, counts, words, rows, i, j, y,
                   drawn, stdout>>

DrawOp(kind, card, at, text) ==
    [kind |-> kind, card |-> card, y |-> at, text |-> text]

\* lines 100-122: selection, collection, title
CardsSelect ==
    /\ pc = "plot_word_cards"
    /\ words' = SelectWords(data, max_words)
    /\ rows' = CollectCards(data, words')
    /\ drawn' = <<DrawOp("title", 0, YStart, <<>>)>>
    /\ y' = YStart - TitleDrop
    /\ i' = 1
    /\ j' = 1
    /\ pc' = IF rows' = <<>> THEN "cards_save" ELSE "card_header"
    /\ steps' = Started("plot_word_cards")
    /\ UNCHANGED <<caller, dir, max_words, data, err, counts, written,
                   outputs, stdout, exitCode>>

\* lines 125-128: the header and the variant line of card i
CardHeader ==
    /\ pc = "card_header"
    /\ drawn' = drawn \o
          <<DrawOp("header", i, y, <<rows[i].language, rows[i].word>>),
            DrawOp("variants", i, y - HeaderDrop, rows[i].ipas)>>
    /\ y' = y - HeaderDrop - VariantsDrop
    /\ j' = 1
    /\ pc' = "card_meanings"
    /\ UNCHANGED <<caller, dir, max_words, data, err, counts, words, rows, i,
                   written, outputs, stdout, exitCode, steps>>

\* lines 130-132: one (ipa, meaning) line of card i
CardMeaning ==
    /\ pc = "card_meanings"
    /\ j <= Len(rows[i].meanings)
    /\ drawn' = Append(drawn, DrawOp("pair", i, y, rows[i].meanings[j]))
    /\ y' = y - PairDrop
    /\ j' = j + 1
    /\ UNCHANGED <<pc, caller, dir, max_words, data, err, counts, words, rows,
                   i, written, outputs, stdout, exitCode, steps>>

\* a plausible slip: the check of lines 135-136 is missing
CardEndNoBreak ==
    /\ pc = "card_meanings"
    /\ j > Len(rows[i].meanings)
    /\ y' = y - GapDrop
    /\ IF i < Len(rows)
       THEN i' = i + 1 /\ pc' = "card_header"
       ELSE i' = i /\ pc' = "cards_save"
    /\ UNCHANGED <<caller, dir, max_words, data, err, counts, words, rows, j,
                   drawn, written, outputs, stdout, exitCode, steps>>

\* lines 133-136: the gap, the check of the cursor, the next card
CardEnd ==
    /\ pc = "card_meanings"
    /\ j > Len(rows[i].meanings)
    /\ y' = y - GapDrop
    /\ \E below \in Below(y - GapDrop) :
        IF ~below /\ i < Len(rows)
        THEN i' = i + 1 /\ pc' = "card_header"
        ELSE i' = i /\ pc' = "cards_save"
    /\ UNCHANGED <<caller, dir, max_words, data, err, counts, words, rows, j,
                   drawn, written, outputs, stdout, exitCode, steps>>

\* lines 138-142 (and line 162)
CardsSave ==
    /\ pc = "cards_save"
    /\ \E ok \in BOOLEAN :
        IF ok
        THEN /\ written' = written \cup {WordCardsPng}
             /\ outputs' = Append(outputs, WordCardsPng)
             /\ pc' = IF caller = "main" THEN "print" ELSE "returned"
             /\ steps' = Ended("ok")
             /\ UNCHANGED <<err, exitCode>>
        ELSE /\ Raise(Error("RenderError"), Ended("failed"))
             /\ UNCHANGED <<written, outputs>>
    /\ UNCHANGED <<caller, dir, max_words, data, counts, words, rows, i, j, y,
                   drawn, stdout>>

Line(text, path) == [text |-> text, path |-> path]

\* line 164
PrintWrote ==
    /\ pc = "print"
    /\ stdout' = Append(stdout, Line("Wrote:", NoPath))
    /\ pc' = "print_paths"
    /\ steps' = Started("print")
    /\ UNCHANGED <<caller, dir, max_words, data, err, counts, words, rows, i,
                   j, y, drawn, written, outputs, exitCode>>

\* lines 165-166: one pass of the loop
PrintPath ==
    /\ pc = "print_paths"
    /\ Len(stdout) <= Len(outputs)
    /\ stdout' = Append(stdout, Line("- ", outputs[Len(stdout)]))
    /\ UNCHANGED <<pc, caller, dir, max_words, data, err, counts, words, rows,
                   i, j, y, drawn, written, outputs, exitCode, steps>>

\* line 168 and line 172
Return ==
    /\ pc = "print_paths"
    /\ Len(stdout) > Len(outputs)
    /\ exitCode' = 0
    /\ pc' = "done"
    /\ steps' = Ended("ok")
    /\ UNCHANGED <<caller, dir, max_words, data, err, counts, words, rows, i,
                   j, y, drawn, written, outputs, stdout>>

---------------------------------------------------------------------------
(* Inputs *)

AllColumns == Required \cup {"extra"}

RawRow(language, word, sense_id, meaning, ipa) ==
    [c \in AllColumns |->
        CASE c = "language" -> language
          [] c = "word" -> word
          [] c = "sense_id" -> sense_id
          [] c = "meaning" -> meaning
          [] c = "ipa" -> ipa
          [] OTHER -> <<"x">>]

\* CSV rows as written in the files: surrounding whitespace, empty cells
\* and the cell text "nan" included
RowPlain == RawRow(<<"e", "n">>, <<"a">>, <<"1">>, <<"a">>, <<"a">>)

RowSecondIpa == RawRow(<<"e", "n">>, <<"a">>, <<"1">>, <<"a">>, <<"b">>)

RowBlanks ==
    RawRow(<<" ", "e", "n">>, <<"a", " ">>, <<"2">>, <<"b">>, <<" ", "a">>)

RowMissing == RawRow(<<"s", "v">>, <<"a">>, <<>>, <<>>, <<"n", "a", "n">>)

RowSv == RawRow(<<"s", "v">>, <<"a">>, <<"1">>, <<"b">>, <<"b">>)

RowPadded ==
    RawRow(<<"e", "n">>, <<"b">>, <<"2">>, <<"a">>, <<" ", " ", "b", " ">>)

RowNoIpa == RawRow(<<"e", "n">>, <<"b">>, <<"1">>, <<"b">>, <<>>)

RowNoSense == RawRow(<<"e", "n">>, <<"a">>, <<>>, <<"a">>, <<"a">>)

\* the rows of the tables the chart functions are called with
RowPool ==
    {RowPlain, RowSecondIpa, RowBlanks, RowMissing, RowSv, RowPadded,
     RowNoIpa, RowNoSense}

\* the rows of the files of a run of main
MainRowPool == {RowPlain, RowBlanks, RowMissing, RowPadded, RowNoIpa}

\* the headers of the CSV files
ColumnChoices ==
    {Required, AllColumns, Required \ {"ipa"}, {"language", "word", "extra"}}

SeqsUpTo(S, n) == UNION {[1..k -> S] : k \in 0..n}

CsvFile(cols, rs) ==
    [cols |-> cols,
     rows |-> [k \in 1..Len(rs) |-> [c \in cols |-> rs[k][c]]]]

EmptyDir == [n \in {} |-> CsvFile({}, <<>>)]

\* files whose names do not match the pattern
OtherFiles ==
    [n \in {FileOther, FileTxt} |->
        CsvFile(Required, <<RowPlain>>)]

\* the input directory of a run of main: empty, without a matching file,
\* or with one or two matching files that hold the rows rs, split at k
Directory(shape, ca, cb, rs, k) ==
    CASE shape = "empty" -> EmptyDir
      [] shape = "others" -> OtherFiles
      [] shape = "a" -> OtherFiles @@ (FileA :> CsvFile(ca, rs))
      [] shape = "b" -> OtherFiles @@ (FileB :> CsvFile(cb, rs))
      [] OTHER -> OtherFiles
                    @@ (FileA :> CsvFile(ca, SubSeq(rs, 1, k)))
                    @@ (FileB :> CsvFile(cb, SubSeq(rs, k + 1, Len(rs))))

DirectoryShapes == {"empty", "others", "a", "b", "ab"}

\* the directory a chart function's table is loaded from
TableDirectory(rs) == (FileA :> CsvFile(Required, rs))

\* the text "a...a" of length n
RECURSIVE Repeat(_)
Repeat(n) == IF n = 0 THEN <<>> ELSE <<"a">> \o Repeat(n - 1)

LayoutWords == <<"a", "b", "c", "e", "h", "m", "n", "o", "r", "s", "t", "v">>

\* the CSV rows of a group with p distinct (ipa, meaning) pairs; a group
\* without pairs has one row without meaning
LayoutGroup(w, p) ==
    IF p = 0
    THEN <<RawRow(<<"e", "n">>, <<LayoutWords[w]>>, <<"1">>, <<>>, <<"a">>)>>
    ELSE [q \in 1..p |->
            RawRow(<<"e", "n">>, <<LayoutWords[w]>>, <<"1">>, Repeat(q),
                   <<"a">>)]

PairChoices == {0, 1, MaxPairs}

\* a directory whose groups have the numbers of pairs ps[1], ps[2], ...
LayoutDirectory(ps) ==
    (FileA :> CsvFile(Required,
                      Flatten([w \in 1..Len(ps) |-> LayoutGroup(w, ps[w])])))

---------------------------------------------------------------------------
(* Specifications *)

InitCommon ==
    /\ err = NoError
    /\ counts = <<>>
    /\ words = <<>>
    /\ rows = <<>>
    /\ i = 1
    /\ j = 1
    /\ y = YStart
    /\ drawn = <<>>
    /\ written = {}
    /\ outputs = <<>>
    /\ stdout = <<>>
    /\ exitCode = NotExited
    /\ steps = <<>>

\* a run of main (lines 145-172)
Init ==
    /\ pc = "start"
    /\ caller = "main"
    /\ \E shape \in DirectoryShapes, ca \in ColumnChoices,
          cb \in ColumnChoices, rs \in SeqsUpTo(MainRowPool, MaxRows),
          k \in 0..MaxRows :
            /\ k <= Len(rs)
            /\ dir = Directory(shape, ca, cb, rs, k)
    /\ max_words = DefaultMaxWords
    /\ data = NoTable
    /\ InitCommon

Next ==
    \/ MkDir
    \/ Load
    \/ PlotVariantCounts
    \/ PlotIpaLength
    \/ CardsSelect
    \/ CardHeader
    \/ CardMeaning
    \/ CardEnd
    \/ CardsSave
    \/ PrintWrote
    \/ PrintPath
    \/ Return

Spec == Init /\ [][Next]_vars

\* a call of plot_variant_counts or of plot_word_cards on a loaded table
InitCharts ==
    /\ caller = "test"
    /\ \E rs \in SeqsUpTo(RowPool, MaxTableRows) : dir = TableDirectory(rs)
    /\ \/ pc = "plot_variant_counts" /\ max_words = DefaultMaxWords
       \/ pc = "plot_word_cards" /\ max_words \in 0..MaxWordsArg
    /\ data = LoadData(dir).table
    /\ InitCommon

NextCharts ==
    \/ PlotVariantCounts
    \/ CardsSelect
    \/ CardHeader
    \/ CardMeaning
    \/ CardEnd
    \/ CardsSave

SpecCharts == InitCharts /\ [][NextCharts]_vars

\* a call of plot_word_cards on a table with many (ipa, meaning) pairs
InitLayout ==
    /\ pc = "plot_word_cards"
    /\ caller = "test"
    /\ \E ps \in SeqsUpTo(PairChoices, MaxCards) : dir = LayoutDirectory(ps)
    /\ max_words = DefaultMaxWords
    /\ data = LoadData(dir).table
    /\ InitCommon

NextLayout ==
    \/ CardsSelect
    \/ CardHeader
    \/ CardMeaning
    \/ CardEnd
    \/ CardsSave

SpecLayout == InitLayout /\ [][NextLayout]_vars

---------------------------------------------------------------------------
(* Properties of load_data *)

\* the name has the form "heteronyms_" + anything + ".csv"
HasPattern(name) ==
    \E k \in 0..(Len(name) - Len(Prefix) - Len(Suffix)) :
        name = Prefix \o SubSeq(name, Len(Prefix) + 1, Len(Prefix) + k) \o Suffix

MatchingFiles == {n \in DOMAIN dir : HasPattern(n)}

\* the columns of the table concatenated from the matching files
ConcatColumns == UNION {dir[f].cols : f \in MatchingFiles}

\* load_data was called and has ended
LoadEnded == Len(steps) >= 2

\* load_data returned a table
Loaded == LoadEnded /\ steps[2].status = "ok"

\* a file could not be read
ReadFailed == LoadEnded /\ steps[2].status = "failed" /\ err.kind = "OSError"

RECURSIVE SumRows(_)
SumRows(fs) ==
    IF fs = {} THEN 0
    ELSE LET f == CHOOSE g \in fs : TRUE
         IN  Len(dir[f].rows) + SumRows(fs \ {f})

IsMissingText(text) == text = <<>> \/ text = <<"n", "a", "n">>

\* what a cell of column c holding text becomes in the loaded table
LoadedCell(c, text) ==
    IF c \in {"language", "word", "ipa"}
    THEN (IF IsMissingText(text) THEN <<"n", "a", "n">> ELSE Strip(text))
    ELSE (IF IsMissingText(text) THEN NA ELSE text)

\* C1: when at least one file matches and the concatenation has the five
\* required columns (and every file can be read), load_data returns a table;
\* the table has as many rows as the matching files together, its rows are
\* ordered by file name ascending, the rows of one file are that file's rows
\* in their in-file order, and source_file is the name of the row's file.
C1_LoadConcatenates ==
    /\ (LoadEnded /\ MatchingFiles # {} /\ Required \subseteq ConcatColumns
            /\ ~ReadFailed) => Loaded
    /\ Loaded =>
        /\ Len(data.rows) = SumRows(MatchingFiles)
        /\ \A a, b \in 1..Len(data.rows) :
              a < b => \/ data.rows[a]["source_file"] = data.rows[b]["source_file"]
                       \/ StrLess(data.rows[a]["source_file"],
                                  data.rows[b]["source_file"])
        /\ \A k \in 1..Len(data.rows) :
              data.rows[k]["source_file"] \in MatchingFiles
        /\ \A f \in MatchingFiles :
              LET seg == SelectSeq(data.rows,
                                   LAMBDA r : r["source_file"] = f)
              IN  /\ Len(seg) = Len(dir[f].rows)
                  /\ \A k \in 1..Len(seg) : \A c \in dir[f].cols :
                        seg[k][c] = LoadedCell(c, dir[f].rows[k][c])

\* two files with rows were concatenated
C1_Witness ==
    /\ Loaded
    /\ \A f \in {FileA, FileB} : f \in DOMAIN dir /\ dir[f].rows # <<>>
    /\ data.rows[1]["source_file"] = FileA
    /\ data.rows[2]["source_file"] = FileB

\* C2: when no file of the directory matches heteronyms_*.csv (the directory
\* is empty or holds only other files), load_data fails with the "no input"
\* error (FileNotFoundError) and returns no table.
C2_NoInput ==
    (LoadEnded /\ MatchingFiles = {}) =>
        /\ pc = "failed"
        /\ err.kind = "FileNotFoundError"
        /\ data = NoTable

\* load_data ran on a directory that holds only non-matching files
C2_Witness ==
    /\ LoadEnded
    /\ DOMAIN dir # {}
    /\ MatchingFiles = {}
    /\ err.kind = "FileNotFoundError"

\* C3: when the table concatenated from the matching files lacks required
\* columns, load_data fails with the "schema" error (ValueError), the error
\* names exactly the missing columns, and no table is returned.
C3_Schema ==
    (LoadEnded /\ MatchingFiles # {} /\ ~ReadFailed
        /\ Required \ ConcatColumns # {}) =>
        /\ pc = "failed"
        /\ err.kind = "ValueError"
        /\ err.missing = Required \ ConcatColumns
        /\ data = NoTable

\* two files with different headers, of which only the union decides: the
\* columns one file lacks and the other has are not reported
C3_Witness ==
    /\ err.kind = "ValueError"
    /\ err.missing = {"ipa"}
    /\ {FileA, FileB} \subseteq DOMAIN dir
    /\ "sense_id" \notin dir[FileA].cols
    /\ "sense_id" \in dir[FileB].cols

IsText(v) == \A k \in 1..Len(v) : \E a \in 1..Len(Alphabet) : v[k] = Alphabet[a]

\* C9: after load_data every language, word and ipa value is a string
\* without leading or trailing whitespace, and normalizing the loaded table
\* again changes nothing.
C9_NormalizationIdempotent ==
    Loaded =>
        /\ \A k \in 1..Len(data.rows) : \A c \in {"language", "word", "ipa"} :
              LET v == data.rows[k][c]
              IN  /\ v # NA
                  /\ IsText(v)
                  /\ v # <<>> => (v[1] # " " /\ v[Len(v)] # " ")
                  /\ NormalizeValue(v) = v
        /\ Normalize(data) = data

\* a table was loaded from cells with several surrounding blanks and from
\* an empty cell
C9_Witness ==
    /\ Loaded
    /\ \E f \in MatchingFiles : \E k \in 1..Len(dir[f].rows) :
          "ipa" \in dir[f].cols /\ dir[f].rows[k]["ipa"] = <<" ", " ", "b", " ">>
    /\ \E f \in MatchingFiles : \E k \in 1..Len(dir[f].rows) :
          "ipa" \in dir[f].cols /\ dir[f].rows[k]["ipa"] = <<>>

---------------------------------------------------------------------------
(* Properties of main *)

StepOrder ==
    <<"mkdir", "load_data", "plot_variant_counts", "plot_ipa_length",
      "plot_word_cards", "print">>

StepOk(k) == Len(steps) >= k /\ steps[k].status = "ok"

C7_WitnessFailure ==
    /\ pc = "failed"
    /\ Len(steps) = 4
    /\ written = {VariantCountsPng}

---------------------------------------------------------------------------
(* Properties of the aggregations *)

\* the (language, word) groups of the loaded table
Groups == {<<data.rows[m]["language"], data.rows[m]["word"]>> :
              m \in 1..Len(data.rows)}

\* the positions of the rows of a group
Members(g) ==
    {m \in 1..Len(data.rows) :
        data.rows[m]["language"] = g[1] /\ data.rows[m]["word"] = g[2]}

\* the distinct values of a column among the rows of a group; a missing
\* sense_id is no value
DistinctValues(g, c) == {data.rows[m][c] : m \in Members(g)} \ {NA}

KeyOf(r) == <<r.language, r.word>>

\* plot_variant_counts was called and has ended
VariantCountsEnded ==
    steps # <<>> /\ steps[Len(steps)].name = "plot_variant_counts"

\* C4: for every group the aggregation yields n_variants = the number of
\* distinct ipa values of the group's rows and n_senses = the number of
\* distinct sense_id values of the group's rows (rows equal in all fields
\* count once; a row without sense_id adds no value).
C4_DistinctCounts ==
    VariantCountsEnded =>
        /\ \A g \in Groups : \E k \in 1..Len(counts) : KeyOf(counts[k]) = g
        /\ \A k \in 1..Len(counts) :
              /\ counts[k].n_variants =
                    Cardinality(DistinctValues(KeyOf(counts[k]), "ipa"))
              /\ counts[k].n_senses =
                    Cardinality(DistinctValues(KeyOf(counts[k]), "sense_id"))

\* a group of three rows, two of them equal in all fields, with one sense
\* and two ipa strings
C4_Witness ==
    /\ VariantCountsEnded
    /\ \E k \in 1..Len(counts) :
          /\ counts[k].n_variants = 2
          /\ counts[k].n_senses = 1
          /\ Cardinality(Members(KeyOf(counts[k]))) = 3
          /\ \E a, b \in Members(KeyOf(counts[k])) :
                a # b /\ data.rows[a] = data.rows[b]

CardsSelected == steps # <<>> /\ steps[Len(steps)].name = "plot_word_cards"

\* group g comes before group h: variant count descending, then language
\* ascending, then word ascending
Precedes(g, h) ==
    LET ng == Cardinality(DistinctValues(g, "ipa"))
        nh == Cardinality(DistinctValues(h, "ipa"))
    IN  \/ ng > nh
        \/ ng = nh /\ StrLess(g[1], h[1])
        \/ ng = nh /\ g[1] = h[1] /\ StrLess(g[2], h[2])

SelectedGroups == {KeyOf(words[k]) : k \in 1..Len(words)}

\* C6: for a non-negative max_words, plot_word_cards selects exactly
\* min(max_words, number of groups) groups, and no unselected group comes
\* before a selected one in the order variant count descending, language
\* ascending, word ascending.
C6_TopWords ==
    (CardsSelected /\ max_words >= 0) =>
        /\ Len(words) = Min(max_words, Cardinality(Groups))
        /\ Cardinality(SelectedGroups) = Len(words)
        /\ SelectedGroups \subseteq Groups
        /\ \A g \in Groups \ SelectedGroups : \A h \in SelectedGroups :
              ~Precedes(g, h)
        /\ \A a, b \in 1..Len(words) :
              a < b => Precedes(KeyOf(words[a]), KeyOf(words[b]))

\* a selection that leaves groups out, and prefers a group of the later
\* language for its variant count
C6_Witness ==
    /\ CardsSelected
    /\ Len(words) >= 1
    /\ Len(words) < Cardinality(Groups)
    /\ \E g \in Groups \ SelectedGroups : StrLess(g[1], words[1].language)

\* the records of the input that belong to a group, as read from the files
\* (before the normalization)
InputRecords(g) ==
    {r \in UNION {Range(ReadCsv(dir[f]).rows) : f \in MatchingFiles} :
        NormalizeValue(r["language"]) = g[1] /\ NormalizeValue(r["word"]) = g[2]}

IsSortedBy(s, Less(_, _)) == \A a, b \in 1..Len(s) : a < b => Less(s[a], s[b])

\* C8: for each selected group the collected IPA list is the ascending list
\* of the distinct non-missing ipa values of the group's records (a record
\* whose ipa was missing in the input adds no entry), and the pair list is
\* the (ipa, meaning) pairs of the records without a missing member, without
\* duplicates, sorted by ipa then meaning.
C8_CardContents ==
    CardsSelected =>
        \A k \in 1..Len(rows) :
            LET recs == InputRecords(<<rows[k].language, rows[k].word>>)
            IN  /\ Range(rows[k].ipas) =
                      {Strip(r["ipa"]) : r \in {q \in recs : q["ipa"] # NA}}
                /\ IsSortedBy(rows[k].ipas, StrLess)
                /\ Range(rows[k].meanings) =
                      {<<Strip(r["ipa"]), r["meaning"]>> : r \in
                          {q \in recs : q["ipa"] # NA /\ q["meaning"] # NA}}
                /\ IsSortedBy(rows[k].meanings, PairLess)

---------------------------------------------------------------------------
(* Properties of the layout loop *)

Headers == SelectSeq(drawn, LAMBDA op : op.kind = "header")

OpsOfCard(k) == SelectSeq(drawn, LAMBDA op : op.card = k)

LayoutEnded == pc \in {"cards_save", "returned", "print", "print_paths", "done"}

\* C10: the cursor starts at 0.98 and drops 0.06 after the title; a card
\* drops it by 0.035, 0.03, 0.025 per pair and 0.02; the cards drawn are a
\* prefix, in selection order, of the selected groups; no card is started
\* with the cursor below 0.05; every started card is drawn completely; the
\* loop leaves cards out only when the cursor is exhausted, and then the
\* image is still written and its path returned.
C10_Layout ==
    CardsSelected =>
        /\ drawn # <<>> /\ drawn[1].kind = "title" /\ drawn[1].y = 980
        /\ Len(Headers) <= Len(words)
        /\ \A k \in 1..Len(Headers) :
              /\ Headers[k].card = k
              /\ Headers[k].text = <<words[k].language, words[k].word>>
              /\ Headers[k].y >= 50
              /\ Headers[k].y =
                    IF k = 1 THEN 980 - 60
                    ELSE Headers[k - 1].y - 35 - 30
                            - 25 * Len(rows[k - 1].meanings) - 20
        /\ \A k \in 1..Len(Headers) :
              (k < Len(Headers) \/ LayoutEnded) =>
                 LET ops == OpsOfCard(k)
                 IN  /\ Len(ops) = 2 + Len(rows[k].meanings)
                     /\ ops[1].kind = "header"
                     /\ ops[2].kind = "variants"
                     /\ ops[2].text = rows[k].ipas
                     /\ ops[2].y = ops[1].y - 35
                     /\ \A m \in 1..Len(rows[k].meanings) :
                           /\ ops[2 + m].kind = "pair"
                           /\ ops[2 + m].text = rows[k].meanings[m]
                           /\ ops[2 + m].y = ops[1].y - 35 - 30 - 25 * (m - 1)
        /\ LayoutEnded =>
              /\ Len(Headers) < Len(words) => y <= 50
              /\ y < 50 => Len(Headers) = i
        /\ pc = "cards_save" => err = NoError
        /\ pc = "returned" =>
              err = NoError /\ WordCardsPng \in written
                            /\ outputs = <<WordCardsPng>>

\* the image was written although cards were left out
C10_Witness ==
    /\ pc = "returned"
    /\ Len(Headers) >= 2
    /\ Len(Headers) < Len(words)
    /\ WordCardsPng \in written

====
